---------------------------- MODULE Spec2Model ----------------------------
(***************************************************************************)
(* Model of the measurement core of iroh-gossip-metrics:                   *)
(*   - Stats (src/src/metrics.rs): record, note_lagged, record_peer_view,  *)
(*     quantil, summarize;                                                 *)
(*   - run_receiver (src/src/transport.rs): the select loop, its event     *)
(*     arms and its two-stage idle termination.                            *)
(*   - run_sender and the event channel of IrohGossip::connect.            *)
(* The specifications share the variables:                                 *)
(*   StatsSpec  drives Stats::record / Stats::summarize directly,          *)
(*   PeerSpec   drives Stats::record_peer_view / Stats::summarize,         *)
(*   QuantSpec  drives Stats::quantil on sorted slices,                    *)
(*   SenderSpec is run_sender,                                             *)
(*   Spec       is the receiver loop, each event handled as it arrives,    *)
(*   LiveSpec   is Spec under the scheduling of the receiver task,         *)
(*   QueueSpec  is the receiver loop behind the buffered event channel.    *)
(* Option<T> is modelled as a sequence: None is <<>>, Some(v) is <<v>>.    *)
(* Times are milliseconds.                                                 *)
(***************************************************************************)
EXTENDS Integers, Sequences, FiniteSets, TLC

\* ------------------------------------------------------------------ bounds
\* width, in bits, of the model's stand-in for u64 / i64 sequence numbers
SeqWidth == 3
\* calls of record / record_peer_view driven by StatsSpec and PeerSpec
MaxCalls == 3
\* transport events handled in one receiver run
MaxEvents == 3
\* transport events arrive at 0, TimeStep, ..., MaxSteps * TimeStep; after
\* that the event stream stays silent
MaxSteps == 3
\* largest connected-peer count the receiver model follows
MaxPeers == 2

\* longest slice, and largest sample, handed to Stats::quantil directly
MaxLen == 6
MaxVal == 5
\* largest test_total given to run_sender
MaxTotal == 3

\* granularity of the model clock (ms)
TimeStep == 25
\* run_receiver's report_after_idle_ms parameter
IdleMs == 25
\* period of the idle-check tick: sleep(Duration::from_millis(50))
TickMs == 50

None == <<>>
Some(v) == <<v>>
IsSome(o) == o # <<>>
Unwrap(o) == o[1]

Max(a, b) == IF a >= b THEN a ELSE b

\* u64::saturating_sub
SatSub(a, b) == IF a >= b THEN a - b ELSE 0

RECURSIVE Pow2(_)
Pow2(n) == IF n = 0 THEN 1 ELSE 2 * Pow2(n - 1)

\* number of values of the unsigned sequence counter (2^64 in the program)
SeqModulus == Pow2(SeqWidth)

\* `seq as i64`: two's-complement reinterpretation of the unsigned counter
AsSigned(u) == IF u >= SeqModulus \div 2 THEN u - SeqModulus ELSE u

RECURSIVE Factorial(_)
Factorial(n) == IF n <= 1 THEN 1 ELSE n * Factorial(n - 1)

\* reachable/connected ratios and their time-weighted sums are held as
\* integers in units of 1/RatioScale; RatioScale is a multiple of every
\* connected count the model uses, so the quotient is exact
RatioScale == Factorial(MaxPeers)

\* slice::sort_unstable on u64: ascending insertion sort
RECURSIVE InsertSorted(_, _)
InsertSorted(s, x) ==
    IF s = <<>> THEN <<x>>
    ELSE IF x <= Head(s) THEN <<x>> \o s
    ELSE <<Head(s)>> \o InsertSorted(Tail(s), x)

RECURSIVE sort_unstable(_)
sort_unstable(s) == IF s = <<>> THEN <<>> ELSE InsertSorted(sort_unstable(Tail(s)), Head(s))

RECURSIVE SumSeq(_)
SumSeq(s) == IF s = <<>> THEN 0 ELSE Head(s) + SumSeq(Tail(s))

First(s) == IF s = <<>> THEN None ELSE Some(s[1])
Last(s) == IF s = <<>> THEN None ELSE Some(s[Len(s)])

\* ----------------------------------------------------------------- Stats
\* Stats::default()
StatsDefault ==
    [ seen |-> {}, max_seq_seen |-> 0, recv_total |-> 0, duplicates |-> 0,
      out_of_order |-> 0, lagged_events |-> 0, lats |-> <<>>, ldhs |-> <<>>,
      total_expected |-> 0,
      pr_last_ts |-> None, pr_last_ratio |-> 0, pr_acc_ms |-> 0, pr_total_ms |-> 0,
      neighbour_down |-> 0, neighbour_up |-> 0,
      conn_last_connected |-> 0, conn_acc_ms |-> 0, conn_total_ms |-> 0,
      downtime_started_at |-> None, downtime_periods |-> 0,
      downtime_duration_ms |-> <<>> ]

\* "if !self.seen.insert(message.seq)": the insert reports a duplicate
is_duplicate_always(st, m) == st.recv_total > 0
is_duplicate(st, m) == m.seq \in st.seen

\* "(message.seq as i64) < self.max_seq_seen"
is_out_of_order(st, m) == AsSigned(m.seq) < st.max_seq_seen

\* "self.total_expected.max(message.total)"
expected_after_last(st, m) == m.total
expected_after(st, m) == Max(st.total_expected, m.total)

\* "recv_ts_ms.saturating_sub(message.sent_ms)"
latency_wrapping(recv_ts_ms, sent_ms) == (recv_ts_ms - sent_ms) % Pow2(2 * SeqWidth + 4)
latency(recv_ts_ms, sent_ms) == SatSub(recv_ts_ms, sent_ms)

\* Stats::record(message, ldh, recv_ts_ms)
record(st, m, ldh, recv_ts_ms) ==
    [ st EXCEPT
        !.total_expected = expected_after(st, m),
        !.recv_total = st.recv_total + 1,
        !.seen = st.seen \cup {m.seq},
        !.duplicates = IF is_duplicate(st, m) THEN st.duplicates + 1 ELSE st.duplicates,
        !.out_of_order = IF is_out_of_order(st, m)
                         THEN st.out_of_order + 1 ELSE st.out_of_order,
        !.max_seq_seen = IF is_out_of_order(st, m)
                         THEN st.max_seq_seen ELSE AsSigned(m.seq),
        !.lats = Append(st.lats, latency(recv_ts_ms, m.sent_ms)),
        !.ldhs = IF IsSome(ldh) THEN Append(st.ldhs, Unwrap(ldh)) ELSE st.ldhs ]

\* Stats::note_lagged
note_lagged_twice(st) == [ st EXCEPT !.lagged_events = st.lagged_events + 2 ]
note_lagged(st) == [ st EXCEPT !.lagged_events = st.lagged_events + 1 ]

\* the ratio of record_peer_view, in units of 1/RatioScale
PeerRatioZeroWhenEmpty(connected, reachable) ==
    IF connected = 0 THEN 0 ELSE (reachable * RatioScale) \div connected
PeerRatio(connected, reachable) ==
    IF connected = 0 THEN RatioScale ELSE (reachable * RatioScale) \div connected

\* "if self.conn_last_connected > 0 && connected == 0": a downtime period starts
opens_downtime_at_zero(last_connected, connected) == connected = 0
opens_downtime(last_connected, connected) == last_connected > 0 /\ connected = 0

\* "if self.conn_last_connected == 0 && connected > 0": a downtime period ends
closes_downtime(last_connected, connected) == last_connected = 0 /\ connected > 0

\* Stats::record_peer_view(ts_ms, connected, reachable)
record_peer_view(st, ts_ms, connected, reachable) ==
    LET hasPrev == IsSome(st.pr_last_ts)
        dur == IF hasPrev THEN SatSub(ts_ms, Unwrap(st.pr_last_ts)) ELSE 0
        opens == opens_downtime(st.conn_last_connected, connected)
        closes == closes_downtime(st.conn_last_connected, connected)
        started == IF opens THEN Some(ts_ms) ELSE st.downtime_started_at
    IN  [ st EXCEPT
            !.pr_acc_ms = st.pr_acc_ms + dur * st.pr_last_ratio,
            !.pr_total_ms = st.pr_total_ms + dur,
            !.conn_acc_ms = st.conn_acc_ms + dur * st.conn_last_connected,
            !.conn_total_ms = st.conn_total_ms + dur,
            !.downtime_periods = IF opens THEN st.downtime_periods + 1
                                 ELSE st.downtime_periods,
            !.downtime_started_at = IF closes THEN None ELSE started,
            !.downtime_duration_ms =
                IF closes /\ IsSome(started)
                THEN Append(st.downtime_duration_ms, SatSub(ts_ms, Unwrap(started)))
                ELSE st.downtime_duration_ms,
            !.pr_last_ts = Some(ts_ms),
            !.pr_last_ratio = PeerRatio(connected, reachable),
            !.conn_last_connected = connected ]

\* ((len - 1) as f64 * quantil).round() for quantil = pct/100: round half
\* away from zero of a non-negative value
QuantilIndexFloor(len, pct) == ((len - 1) * pct) \div 100
QuantilIndex(len, pct) == ((len - 1) * pct * 2 + 100) \div 200

\* Stats::quantil(sorted, quantil); sorted.get(idx) is None out of range
quantil_or_zero(sorted, pct) ==
    IF sorted = <<>> THEN Some(0)
    ELSE LET idx == QuantilIndex(Len(sorted), pct)
         IN  IF idx < Len(sorted) THEN Some(sorted[idx + 1]) ELSE None
quantil(sorted, pct) ==
    IF sorted = <<>> THEN None
    ELSE LET idx == QuantilIndex(Len(sorted), pct)
         IN  IF idx < Len(sorted) THEN Some(sorted[idx + 1]) ELSE None

\* "if let Some(start) = self.downtime_started_at.take()": the durations once
\* the interval still open at summarize time is closed at now_ms()
close_open_downtime_dropped(st, now_ms) == st.downtime_duration_ms
close_open_downtime(st, now_ms) ==
    IF IsSome(st.downtime_started_at)
    THEN Append(st.downtime_duration_ms, SatSub(now_ms, Unwrap(st.downtime_started_at)))
    ELSE st.downtime_duration_ms

\* the Stats left behind by summarize(): samples sorted, the open
\* time-weighted window and the open downtime interval closed at now_ms()
summarize_stats(st, now_ms) ==
    LET sorted == [ st EXCEPT !.lats = sort_unstable(st.lats), !.ldhs = sort_unstable(st.ldhs) ]
    IN  IF IsSome(st.pr_last_ts)
        THEN LET dur == SatSub(now_ms, Unwrap(st.pr_last_ts))
             IN [ sorted EXCEPT
                    !.pr_acc_ms = st.pr_acc_ms + dur * st.pr_last_ratio,
                    !.pr_total_ms = st.pr_total_ms + dur,
                    !.conn_acc_ms = st.conn_acc_ms + dur * st.conn_last_connected,
                    !.conn_total_ms = st.conn_total_ms + dur,
                    !.downtime_started_at = None,
                    !.downtime_duration_ms = close_open_downtime(st, now_ms),
                    !.pr_last_ts = Some(now_ms) ]
        ELSE sorted

\* "let total_expected = self.total_expected.max(received_unique)"
reported_total_raw(st) == st.total_expected
reported_total(st) == Max(st.total_expected, Cardinality(st.seen))

\* the Summary returned by summarize(); an f64 quotient a/b is the pair
\* <<a, b>>, the literal 0.0 is <<0, 1>>
summarize(st, now_ms) ==
    LET fin == summarize_stats(st, now_ms)
        received_unique == Cardinality(st.seen)
        total_expected == reported_total(st)
        downtime_sorted == sort_unstable(fin.downtime_duration_ms)
    IN  [ received_unique |-> received_unique,
          recv_total |-> st.recv_total,
          total_expected |-> total_expected,
          delivery_rate |-> IF total_expected = 0 THEN <<0, 1>>
                            ELSE <<received_unique, total_expected>>,
          duplicate_rate |-> IF st.recv_total = 0 THEN <<0, 1>>
                             ELSE <<st.duplicates, st.recv_total>>,
          duplicates |-> st.duplicates,
          out_of_order |-> st.out_of_order,
          lagged_events |-> st.lagged_events,
          lat_min |-> First(fin.lats),
          lat_p50 |-> quantil(fin.lats, 50),
          lat_p90 |-> quantil(fin.lats, 90),
          lat_p99 |-> quantil(fin.lats, 99),
          lat_max |-> Last(fin.lats),
          ldh_min |-> First(fin.ldhs),
          ldh_p50 |-> quantil(fin.ldhs, 50),
          ldh_p90 |-> quantil(fin.ldhs, 90),
          ldh_p99 |-> quantil(fin.ldhs, 99),
          ldh_max |-> Last(fin.ldhs),
          pr_avg_ratio |-> IF fin.pr_total_ms > 0
                           THEN Some(<<fin.pr_acc_ms, fin.pr_total_ms * RatioScale>>)
                           ELSE None,
          neighbour_down |-> st.neighbour_down,
          neighbour_up |-> st.neighbour_up,
          avg_connected_peers |-> IF fin.conn_total_ms > 0
                                  THEN Some(<<fin.conn_acc_ms, fin.conn_total_ms>>)
                                  ELSE None,
          downtime_total_ms |-> SumSeq(downtime_sorted),
          downtime_periods |-> st.downtime_periods,
          downtime_p50_ms |-> quantil(downtime_sorted, 50),
          downtime_p90_ms |-> quantil(downtime_sorted, 90),
          downtime_max_ms |-> Last(downtime_sorted),
          joined |-> FALSE,
          join_wait_ms |-> 0,
          saw_test |-> FALSE,
          timed_out_no_data |-> FALSE ]


\* ------------------------------------------------------- reconnect times
\* Stats::note_disconnect, Stats::note_reconnect and the reconnect-time
\* samples are called from run_receiver but are not part of metrics.rs as
\* given; they follow the design text: the most recent disconnect time is
\* kept until the next valid data message, which records the elapsed time.
ReconnDefault == [ last_disconnect_ms |-> None, reconnect_times_ms |-> <<>> ]

\* Stats::note_disconnect(ts)
note_disconnect(rc, ts) == [ rc EXCEPT !.last_disconnect_ms = Some(ts) ]

\* Stats::note_reconnect(): membership-up takes no sample (the measurement
\* stays pending until data resumes)
note_reconnect(rc) == rc

\* the reconnect-time step of Stats::record
record_reconnect(rc, recv_ts_ms) ==
    IF IsSome(rc.last_disconnect_ms)
    THEN [ last_disconnect_ms |-> None,
           reconnect_times_ms |->
               Append(rc.reconnect_times_ms,
                      SatSub(recv_ts_ms, Unwrap(rc.last_disconnect_ms))) ]
    ELSE rc

\* the reconnect-time fields of the Summary
summarize_reconnect(rc) ==
    LET sorted == sort_unstable(rc.reconnect_times_ms)
    IN  [ reconnect_min_ms |-> First(sorted),
          reconnect_p50_ms |-> quantil(sorted, 50),
          reconnect_p90_ms |-> quantil(sorted, 90),
          reconnect_max_ms |-> Last(sorted) ]

\* ------------------------------------------------------------- variables
VARIABLES
    stats,            \* the Stats accumulator
    reconn,           \* its reconnect-time part
    summary,          \* Option<Summary>: the value returned by summarize / run_receiver
    delivered,        \* the envelopes passed to Stats::record so far, in order
    views,            \* the (ts, connected, reachable) passed to record_peer_view so far
    pc,               \* run_receiver: "start", "loop", "done", "failed"
    exit_by,          \* how the loop was left: "none", "idle_timeout", "end_of_stream", "log_error"
    now,              \* the wall clock read by now_ms()
    start_ms,         \* run_receiver's start_ms
    sleep_from,       \* when the current iteration's sleep(50 ms) was created
    last_valid_ms,    \* run_receiver's last_valid_ms
    current_test,     \* run_receiver's current_test: Option<test_id>
    connected_peers,  \* run_receiver's connected_peers
    log,              \* the LogEvents written so far
    consumed,         \* transport events taken from transport.next() so far
    event,            \* what the select! yielded in the latest iteration
    transport,        \* the transport's joined(), join_wait_ms() and event-channel capacity
    report_after_idle_ms, \* run_receiver's report_after_idle_ms parameter
    queue,            \* the events sent on the event channel and not yet taken by next()
    enqueued,         \* every event sent on the event channel so far, in order
    snd_pc,           \* run_sender: "idle", "send", "log", "done", "failed"
    snd_err,          \* the error run_sender returned: "none", "broadcast", "log"
    snd_seq,          \* run_sender's loop variable seq
    snd_test_id,      \* run_sender's test_id
    test_total,       \* run_sender's test_total parameter
    rate_per_sec,     \* run_sender's rate_per_sec parameter
    broadcasts,       \* the calls of transport.broadcast so far: bytes and outcome
    sorted,           \* the slice handed to Stats::quantil
    qcall             \* Option: the latest call of Stats::quantil and its result

\* run_sender's state
sndvars == << snd_pc, snd_err, snd_seq, snd_test_id, test_total, rate_per_sec,
              broadcasts >>

\* run_sender's state and the argument / result of a direct quantil call
auxvars == << sndvars, sorted, qcall >>

\* the event channel between the transport's tasks and transport.next()
chanvars == << queue, enqueued >>

vars == << stats, reconn, summary, delivered, views, pc, exit_by, now, start_ms,
           sleep_from, last_valid_ms, current_test, connected_peers, log,
           consumed, event, transport, report_after_idle_ms, chanvars, auxvars >>

rxvars == << pc, exit_by, now, start_ms, sleep_from, last_valid_ms, current_test,
             connected_peers, log, consumed, event, transport, report_after_idle_ms,
             chanvars >>

\* payload bytes: the postcard encoding of an envelope, or bytes that are none
Encoded(m) == [ ok |-> TRUE, msg |-> m ]
Garbage == [ ok |-> FALSE, msg |-> [ test_id |-> 0, seq |-> 0, sent_ms |-> 0, total |-> 0 ] ]

\* what one pass through the select! yields: "tick" for the sleep branch,
\* otherwise the item of transport.next(): "Msg" (with bytes and ldh), "Lagged",
\* "Disconnect", "Reconnect", "Err", or "End" for end of stream
Yielded(kind, bytes, ldh) == [ kind |-> kind, bytes |-> bytes, ldh |-> ldh ]
Plain(kind) == Yielded(kind, Garbage, None)

MaxTime == MaxSteps * TimeStep

\* DataMsg
DataMsg(t, s, sent, n) == [ test_id |-> t, seq |-> s, sent_ms |-> sent, total |-> n ]

InitCommon ==
    /\ stats = StatsDefault
    /\ reconn = ReconnDefault
    /\ summary = None
    /\ delivered = <<>>
    /\ views = <<>>
    /\ pc = "start"
    /\ exit_by = "none"
    /\ now = 0
    /\ start_ms = 0
    /\ sleep_from = 0
    /\ last_valid_ms = 0
    /\ current_test = None
    /\ connected_peers = 0
    /\ log = <<>>
    /\ consumed = 0
    /\ event = Plain("none")
    /\ queue = <<>>
    /\ enqueued = <<>>

\* no run_sender invocation
SenderIdle ==
    /\ snd_pc = "idle"
    /\ snd_err = "none"
    /\ snd_seq = 0
    /\ snd_test_id = 0
    /\ test_total = 0
    /\ rate_per_sec = 0
    /\ broadcasts = <<>>

\* no direct quantil call
QuantIdle ==
    /\ sorted = <<>>
    /\ qcall = None

AuxIdle == SenderIdle /\ QuantIdle

\* --------------------------------------------------------------- StatsSpec
\* Stats::record driven directly with arbitrary envelopes, then summarize.
AllSeqs == {0, 1, SeqModulus - 1}
AllTotals == {0, 2}
AllSent == {0, 2 * TimeStep}
AllLdh == {None, Some(1)}
RecvTimes == {TimeStep}
SummaryTimes == {3 * TimeStep}

StatsInit ==
    /\ InitCommon
    /\ AuxIdle
    /\ transport = [ joined |-> TRUE, join_wait_ms |-> 0, capacity |-> 0 ]
    /\ report_after_idle_ms = IdleMs

\* one call stats.record(&m, ldh, recv_ts)
Record(m, ldh, ts) ==
    /\ summary = None
    /\ Len(delivered) < MaxCalls
    /\ stats' = record(stats, m, ldh, ts)
    /\ delivered' = Append(delivered, m)
    /\ UNCHANGED << auxvars, reconn, summary, views, rxvars >>

\* one call stats.summarize()
Summarize(ts) ==
    /\ summary = None
    /\ summary' = Some(summarize(stats, ts))
    /\ stats' = summarize_stats(stats, ts)
    /\ UNCHANGED << auxvars, reconn, delivered, views, rxvars >>

StatsNext ==
    \/ \E s \in AllSeqs, n \in AllTotals, sent \in AllSent, l \in AllLdh, ts \in RecvTimes :
          Record(DataMsg(1, s, sent, n), l, ts)
    \/ \E ts \in SummaryTimes : Summarize(ts)

StatsSpec == StatsInit /\ [][StatsNext]_vars


\* ---------------------------------------------------------------- PeerSpec
\* Stats::record_peer_view driven directly with non-decreasing timestamps,
\* then summarize.
PeerTimes == {0, 1000, 3000}
PeerSummaryTimes == {4000}

PeerInit ==
    /\ InitCommon
    /\ AuxIdle
    /\ transport = [ joined |-> TRUE, join_wait_ms |-> 0, capacity |-> 0 ]
    /\ report_after_idle_ms = IdleMs

\* one call stats.record_peer_view(ts, connected, reachable)
PeerView(ts, connected, reachable) ==
    /\ summary = None
    /\ Len(views) < MaxCalls
    /\ views # <<>> => ts >= views[Len(views)].ts
    /\ stats' = record_peer_view(stats, ts, connected, reachable)
    /\ views' = Append(views, [ ts |-> ts, connected |-> connected, reachable |-> reachable ])
    /\ UNCHANGED << auxvars, reconn, summary, delivered, rxvars >>

PeerNext ==
    \/ \E ts \in PeerTimes, c \in 0..MaxPeers : \E r \in 0..c : PeerView(ts, c, r)
    \/ \E ts \in PeerSummaryTimes : Summarize(ts)

PeerSpec == PeerInit /\ [][PeerNext]_vars


\* --------------------------------------------------------------- QuantSpec
\* Stats::quantil called directly on a sorted slice, with the three quantiles
\* summarize uses: 0.50, 0.90, 0.99 (in hundredths).
Quantiles == {50, 90, 99}

\* the ascending slices of length n over 1..MaxVal
RECURSIVE SortedSlices(_)
SortedSlices(n) ==
    IF n = 0 THEN { <<>> }
    ELSE { t \in { Append(s, v) : s \in SortedSlices(n - 1), v \in 1..MaxVal } :
             n = 1 \/ t[n - 1] <= t[n] }

QuantInit ==
    /\ InitCommon
    /\ SenderIdle
    /\ transport = [ joined |-> TRUE, join_wait_ms |-> 0, capacity |-> 0 ]
    /\ report_after_idle_ms = IdleMs
    /\ sorted \in UNION { SortedSlices(n) : n \in 0..MaxLen }
    /\ qcall = None

\* one call Self::quantil(&sorted, pct / 100)
Quantil(pct) ==
    /\ qcall' = Some([ pct |-> pct, result |-> quantil(sorted, pct) ])
    /\ UNCHANGED << stats, reconn, summary, delivered, views, rxvars, sndvars, sorted >>

QuantNext == \E pct \in Quantiles : Quantil(pct)

QuantSpec == QuantInit /\ [][QuantNext]_vars


\* -------------------------------------------------------------------- Spec
\* run_receiver.  One step of the loop is one action: the select! branch
\* taken, the matching event arm, and the termination check that follows it.
\* Time passes only while the select! is blocked; the sleep created at the
\* top of an iteration fires TickMs later, and being polled first (biased)
\* it wins over an event that is ready at that moment.
RxSeqs == {0, 1}
RxTotals == {0, 2}

\* the envelopes on the wire: those of test 1, sequence number s stamped
\* 2 * s * TimeStep on the sender's clock (which may run ahead of the
\* receiver's), and one envelope of another sender's test 2
RxEnvelopes ==
    { DataMsg(1, s, 2 * s * TimeStep, n) : s \in RxSeqs, n \in RxTotals }
        \cup { DataMsg(2, 0, 0, 2) }

\* the hop count a payload arrives with: sequence number 0 comes straight
\* from a neighbour (DeliveryScope::Neighbors, no hop count), the others
\* through the swarm
RxLdh(bytes) == IF bytes.msg.seq = 0 THEN None ELSE Some(bytes.msg.seq)

Payloads == { Encoded(m) : m \in RxEnvelopes } \cup { Garbage }

\* postcard::from_bytes::<DataMsg>(&bytes)
from_bytes_lenient(bytes) == Some(bytes.msg)
from_bytes(bytes) == IF bytes.ok THEN Some(bytes.msg) ELSE None

\* the transports a run may be given: join confirmed, or not
Transports == { [ joined |-> TRUE, join_wait_ms |-> TimeStep, capacity |-> 0 ],
                [ joined |-> FALSE, join_wait_ms |-> 2 * TimeStep, capacity |-> 0 ] }

\* LogEvent (role and peer_id are fixed per run and left out)
LogEvent(ts, name, seq, lat, ldh, extra) ==
    [ ts_ms |-> ts, event |-> name, seq |-> seq, lat_ms |-> lat, ldh |-> ldh,
      extra |-> extra ]

Init ==
    /\ InitCommon
    /\ AuxIdle
    /\ transport \in Transports
    /\ report_after_idle_ms = IdleMs

\* the two-stage termination test at the bottom of the loop
idle_expired_after_data(st, last_valid, start, now_ms) ==
    st.total_expected > 0 /\ SatSub(now_ms, last_valid) > report_after_idle_ms
idle_expired(st, last_valid, start, now_ms) ==
    \/ st.total_expected > 0 /\ SatSub(now_ms, last_valid) > report_after_idle_ms
    \/ st.total_expected = 0 /\ SatSub(now_ms, start) > report_after_idle_ms

\* the lines after the loop: summarize and annotate
finish_from_raw_total(st, now_ms, tr) ==
    LET s == summarize(st, now_ms)
    IN  [ s EXCEPT !.joined = tr.joined,
                   !.join_wait_ms = tr.join_wait_ms,
                   !.saw_test = st.total_expected > 0,
                   !.timed_out_no_data = ~(st.total_expected > 0) ]
finish(st, now_ms, tr) ==
    LET s == summarize(st, now_ms)
    IN  [ s EXCEPT !.joined = tr.joined,
                   !.join_wait_ms = tr.join_wait_ms,
                   !.saw_test = s.total_expected > 0,
                   !.timed_out_no_data = ~(s.total_expected > 0) ]

\* leaving the loop by break: summarize and return Ok(summary)
Return(st, how) ==
    /\ pc' = "done"
    /\ exit_by' = how
    /\ stats' = summarize_stats(st, now)
    /\ summary' = Some(finish(st, now, transport))

\* the rest of an iteration after the select!: `?` on a failed log write
\* returns the error; otherwise the termination check runs
EndIterationUnchecked(st, last_valid, wrote) ==
    /\ sleep_from' = now
    /\ last_valid_ms' = last_valid
    /\ pc' = IF wrote THEN "loop" ELSE "failed"
    /\ exit_by' = IF wrote THEN "none" ELSE "log_error"
    /\ stats' = st
    /\ summary' = None
EndIteration(st, last_valid, wrote) ==
    /\ sleep_from' = now
    /\ last_valid_ms' = last_valid
    /\ IF ~wrote
       THEN /\ pc' = "failed"
            /\ exit_by' = "log_error"
            /\ stats' = st
            /\ summary' = None
       ELSE IF idle_expired(st, last_valid, start_ms, now)
       THEN Return(st, "idle_timeout")
       ELSE /\ pc' = "loop"
            /\ exit_by' = "none"
            /\ stats' = st
            /\ summary' = None

\* before the loop: the no_join event when the transport did not join
StartSilent ==
    /\ pc = "start"
    /\ pc' = "loop"
    /\ exit_by' = "none"
    /\ sleep_from' = now
    /\ UNCHANGED << auxvars, chanvars, stats, reconn, summary, delivered, views, now,
                    start_ms, last_valid_ms, current_test, connected_peers, log, consumed,
                    event, transport, report_after_idle_ms >>
Start ==
    /\ pc = "start"
    /\ \E wrote \in BOOLEAN :
         /\ ~wrote => ~transport.joined
         /\ log' = IF ~transport.joined /\ wrote
                   THEN Append(log, LogEvent(now, "no_join", None, None, None,
                                             << transport.join_wait_ms >>))
                   ELSE log
         /\ pc' = IF wrote THEN "loop" ELSE "failed"
         /\ exit_by' = IF wrote THEN "none" ELSE "log_error"
    /\ sleep_from' = now
    /\ UNCHANGED << auxvars, chanvars, stats, reconn, summary, delivered, views, now,
                    start_ms, last_valid_ms, current_test, connected_peers, consumed, event,
                    transport, report_after_idle_ms >>

\* time passes while the select! is blocked, up to the moment the sleep
\* fires: the event channel is empty, or next() would have returned
Advance ==
    /\ pc = "loop"
    /\ now < sleep_from + TickMs
    /\ queue = <<>>
    /\ now' = IF now + TimeStep <= sleep_from + TickMs
              THEN now + TimeStep ELSE sleep_from + TickMs
    /\ UNCHANGED << auxvars, chanvars, stats, reconn, summary, delivered, views, pc, exit_by,
                    start_ms, sleep_from, last_valid_ms, current_test, connected_peers, log,
                    consumed, event, transport, report_after_idle_ms >>

\* the sleep branch wins the select!: the pending transport.next() future
\* is dropped; it borrows the stream and has taken nothing from the channel
next_cancelled_loses_head(q) == IF q = <<>> THEN q ELSE Tail(q)
next_cancelled(q) == q

\* the sleep branch of the select!
Tick ==
    /\ pc = "loop"
    /\ now >= sleep_from + TickMs
    /\ event' = Plain("tick")
    /\ queue' = next_cancelled(queue)
    /\ enqueued' = enqueued
    /\ EndIteration(stats, last_valid_ms, TRUE)
    /\ UNCHANGED << auxvars, reconn, delivered, views, now, start_ms, current_test,
                    connected_peers, log, consumed, transport, report_after_idle_ms >>

\* transport.next() is polled only when the sleep has not fired
EventReady ==
    /\ pc = "loop"
    /\ now < sleep_from + TickMs
    /\ now <= MaxTime
    /\ consumed < MaxEvents

\* transport.next() returns Some(e): over a channel without buffer the
\* event is handed over as it is produced, otherwise e is the oldest event
\* in the channel and is removed from it
Yields(e) ==
    /\ enqueued' = enqueued
    /\ IF transport.capacity = 0
       THEN queue' = queue
       ELSE /\ queue # <<>>
            /\ Head(queue) = e
            /\ queue' = Tail(queue)

\* "if current_test.is_none() { current_test = Some(m.test_id) }"
rebind_always(ct, m) == Some(m.test_id)
bind_test(ct, m) == IF ct = None THEN Some(m.test_id) ELSE ct

\* Some(Ok(TransportEvent::Msg { bytes, ldh }))
OnMsg(bytes, ldh) ==
    /\ EventReady
    /\ consumed' = consumed + 1
    /\ event' = Yielded("Msg", bytes, ldh)
    /\ Yields(Yielded("Msg", bytes, ldh))
    /\ LET recv_ts == now
           decoded == from_bytes(bytes)
       IN  IF IsSome(decoded)
           THEN LET m == Unwrap(decoded)
                    ct == bind_test(current_test, m)
                IN  /\ current_test' = ct
                    /\ IF Some(m.test_id) = ct
                       THEN \E wrote \in BOOLEAN :
                              /\ delivered' = Append(delivered, m)
                              /\ reconn' = record_reconnect(reconn, recv_ts)
                              /\ log' = IF wrote
                                        THEN Append(log, LogEvent(recv_ts, "recv", Some(m.seq),
                                                 Some(SatSub(recv_ts, m.sent_ms)), ldh, <<>>))
                                        ELSE log
                              /\ EndIteration(record(stats, m, ldh, recv_ts), recv_ts, wrote)
                       ELSE /\ EndIteration(stats, last_valid_ms, TRUE)
                            /\ UNCHANGED << delivered, reconn, log >>
           ELSE /\ EndIteration(stats, last_valid_ms, TRUE)
                /\ UNCHANGED << current_test, delivered, reconn, log >>
    /\ UNCHANGED << auxvars, views, now, start_ms, connected_peers, transport, report_after_idle_ms >>

\* Some(Ok(TransportEvent::Lagged))
OnLagged ==
    /\ EventReady
    /\ consumed' = consumed + 1
    /\ event' = Plain("Lagged")
    /\ Yields(Plain("Lagged"))
    /\ \E wrote \in BOOLEAN :
         /\ log' = IF wrote
                   THEN Append(log, LogEvent(now, "lagged", None, None, None, <<>>))
                   ELSE log
         /\ EndIteration(note_lagged(stats), last_valid_ms, wrote)
    /\ UNCHANGED << auxvars, reconn, delivered, views, now, start_ms, current_test,
                    connected_peers, transport, report_after_idle_ms >>

\* "stats.record_peer_view(ts, connected_peers, connected_peers)": the
\* reachable count handed over is the connected counter itself
reachable_peers_none(connected) == 0
reachable_peers(connected) == connected

\* "if connected_peers > 0 { connected_peers -= 1 }"
peers_after_down_unfloored(n) == n - 1
peers_after_down(n) == IF n > 0 THEN n - 1 ELSE n

\* Some(Ok(TransportEvent::Disconnect))
\* the time handed to stats.note_disconnect
disconnect_time_zero(ts) == 0
disconnect_time(ts) == ts
OnDisconnect ==
    /\ EventReady
    /\ consumed' = consumed + 1
    /\ event' = Plain("Disconnect")
    /\ Yields(Plain("Disconnect"))
    /\ LET ts == now
           peers == peers_after_down(connected_peers)
       IN  /\ connected_peers' = peers
           /\ reconn' = note_disconnect(reconn, disconnect_time(ts))
           /\ \E wrote \in BOOLEAN :
                /\ log' = IF wrote
                          THEN Append(log, LogEvent(ts, "neighbor_down", None, None, None,
                                                    << peers, reachable_peers(peers) >>))
                          ELSE log
                /\ EndIteration(record_peer_view(stats, ts, peers, reachable_peers(peers)),
                                last_valid_ms, wrote)
    /\ UNCHANGED << auxvars, delivered, views, now, start_ms, current_test, transport, report_after_idle_ms >>

\* Some(Ok(TransportEvent::Reconnect))
OnReconnect ==
    /\ EventReady
    /\ connected_peers < MaxPeers
    /\ consumed' = consumed + 1
    /\ event' = Plain("Reconnect")
    /\ Yields(Plain("Reconnect"))
    /\ LET ts == now
           peers == connected_peers + 1
       IN  /\ connected_peers' = peers
           /\ reconn' = note_reconnect(reconn)
           /\ \E wrote \in BOOLEAN :
                /\ log' = IF wrote
                          THEN Append(log, LogEvent(ts, "neighbor_up", None, None, None,
                                                    << peers, reachable_peers(peers) >>))
                          ELSE log
                /\ EndIteration(record_peer_view(stats, ts, peers, reachable_peers(peers)),
                                last_valid_ms, wrote)
    /\ UNCHANGED << auxvars, delivered, views, now, start_ms, current_test, transport, report_after_idle_ms >>

\* Some(Err(e)): a warning, nothing else
OnErrFatal ==
    /\ EventReady
    /\ consumed' = consumed + 1
    /\ event' = Plain("Err")
    /\ Yields(Plain("Err"))
    /\ Return(stats, "transport_error")
    /\ UNCHANGED << auxvars, reconn, delivered, views, now, start_ms, sleep_from,
                    last_valid_ms, current_test, connected_peers, log, transport, report_after_idle_ms >>
OnErr ==
    /\ EventReady
    /\ consumed' = consumed + 1
    /\ event' = Plain("Err")
    /\ Yields(Plain("Err"))
    /\ EndIteration(stats, last_valid_ms, TRUE)
    /\ UNCHANGED << auxvars, reconn, delivered, views, now, start_ms, current_test,
                    connected_peers, log, transport, report_after_idle_ms >>

\* None => break: the event stream has ended
OnEndKeepsWaiting ==
    /\ pc = "loop"
    /\ now < sleep_from + TickMs
    /\ event.kind # "End"
    /\ event' = Plain("End")
    /\ queue = <<>>
    /\ UNCHANGED chanvars
    /\ EndIteration(stats, last_valid_ms, TRUE)
    /\ UNCHANGED << auxvars, reconn, delivered, views, now, start_ms, current_test,
                    connected_peers, log, consumed, transport, report_after_idle_ms >>
OnEnd ==
    /\ pc = "loop"
    /\ now < sleep_from + TickMs
    /\ event' = Plain("End")
    /\ queue = <<>>
    /\ UNCHANGED chanvars
    /\ Return(stats, "end_of_stream")
    /\ UNCHANGED << auxvars, reconn, delivered, views, now, start_ms, sleep_from, last_valid_ms,
                    current_test, connected_peers, log, consumed, transport, report_after_idle_ms >>

Next ==
    \/ Start
    \/ Advance
    \/ Tick
    \/ \E b \in Payloads : OnMsg(b, RxLdh(b))
    \/ OnLagged
    \/ OnDisconnect
    \/ OnReconnect
    \/ OnErr
    \/ OnEnd

Spec == Init /\ [][Next]_vars

\* the receiver under its scheduling: the task runs its prologue, the clock
\* keeps running while the select! is blocked, and a sleep that has fired is
\* served; nothing obliges the transport to deliver an event or to end
LiveSpec == Spec /\ WF_vars(Start) /\ WF_vars(Advance) /\ WF_vars(Tick)

\* --------------------------------------------------------------- QueueSpec
\* run_receiver behind the event channel of IrohGossip::connect: the
\* incoming task sends events on a bounded mpsc channel while the loop runs,
\* and transport.next() takes the oldest.
QueueCap == 2

\* the events the incoming task sends: a data message of test 1 and the
\* four other kinds
QueueEvents ==
    { Yielded("Msg", Encoded(DataMsg(1, 0, 0, 2)), None),
      Plain("Lagged"), Plain("Disconnect"), Plain("Reconnect"), Plain("Err") }

\* the Reconnect events among the items of q
RECURSIVE Reconnects(_)
Reconnects(q) ==
    IF q = <<>> THEN 0
    ELSE (IF Head(q).kind = "Reconnect" THEN 1 ELSE 0) + Reconnects(Tail(q))

QueueInit ==
    /\ InitCommon
    /\ AuxIdle
    /\ transport = [ joined |-> TRUE, join_wait_ms |-> TimeStep, capacity |-> QueueCap ]
    /\ report_after_idle_ms \in { IdleMs, 3 * TimeStep }

\* "ev_tx.send(Ok(event)).await": the incoming task puts one event on the
\* channel; send waits while the channel is full
Enqueue(e) ==
    /\ transport.capacity > 0
    /\ pc \in {"start", "loop"}
    /\ now <= MaxTime
    /\ Len(enqueued) < MaxEvents
    /\ Len(queue) < transport.capacity
    /\ e.kind = "Reconnect" => connected_peers + Reconnects(queue) < MaxPeers
    /\ queue' = Append(queue, e)
    /\ enqueued' = Append(enqueued, e)
    /\ UNCHANGED << auxvars, stats, reconn, summary, delivered, views, pc, exit_by, now,
                    start_ms, sleep_from, last_valid_ms, current_test, connected_peers, log,
                    consumed, event, transport, report_after_idle_ms >>

QueueNext ==
    \/ \E e \in QueueEvents : Enqueue(e)
    \/ Next

QueueSpec == QueueInit /\ [][QueueNext]_vars

\* -------------------------------------------------------------- SenderSpec
\* run_sender.  One loop iteration is two steps: the broadcast of the
\* envelope, then the send log event and the pacing sleep.
SenderTestIds == {1, 2}
SenderTotals == 0..MaxTotal
SenderRates == {0, 40, 2000}

\* "max(1, (1000 / rate_per_sec.max(1)) as i64) as u64"
interval(rate) == Max(1, 1000 \div Max(rate, 1))

SenderInit ==
    /\ InitCommon
    /\ QuantIdle
    /\ transport = [ joined |-> TRUE, join_wait_ms |-> 0, capacity |-> 0 ]
    /\ report_after_idle_ms = IdleMs
    /\ snd_pc = "send"
    /\ snd_err = "none"
    /\ snd_seq = 0
    /\ snd_test_id \in SenderTestIds
    /\ test_total \in SenderTotals
    /\ rate_per_sec \in SenderRates
    /\ broadcasts = <<>>

\* "for seq in 0..test_total": the range has no further element
range_exhausted_late(seq, total) == seq > total
range_exhausted(seq, total) == seq >= total

\* "transport.broadcast(Bytes::from(bytes)).await?": where the run goes next
after_broadcast_unchecked(ok) == "log"
after_broadcast(ok) == IF ok THEN "log" ELSE "failed"

\* build the envelope, serialize and pad it, broadcast it
Broadcast(ok) ==
    /\ snd_pc = "send"
    /\ ~range_exhausted(snd_seq, test_total)
    /\ LET msg == DataMsg(snd_test_id, snd_seq, now, test_total)
       IN  broadcasts' = Append(broadcasts, [ bytes |-> Encoded(msg), ok |-> ok ])
    /\ snd_pc' = after_broadcast(ok)
    /\ snd_err' = IF ok THEN "none" ELSE "broadcast"
    /\ UNCHANGED << stats, reconn, summary, delivered, views, rxvars, snd_seq,
                    snd_test_id, test_total, rate_per_sec, sorted, qcall >>

\* write the send event, sleep for the interval, take the next seq
WriteSendLog(wrote) ==
    /\ snd_pc = "log"
    /\ IF wrote
       THEN /\ log' = Append(log, LogEvent(now, "send", Some(snd_seq), None, None,
                                           << test_total >>))
            /\ now' = now + interval(rate_per_sec)
            /\ snd_seq' = snd_seq + 1
            /\ snd_pc' = "send"
            /\ snd_err' = snd_err
       ELSE /\ snd_pc' = "failed"
            /\ snd_err' = "log"
            /\ UNCHANGED << log, now, snd_seq >>
    /\ UNCHANGED << stats, reconn, summary, delivered, views, pc, exit_by, start_ms,
                    sleep_from, last_valid_ms, current_test, connected_peers, consumed,
                    event, transport, report_after_idle_ms, chanvars, snd_test_id,
                    test_total, rate_per_sec,
                    broadcasts, sorted, qcall >>

\* the range is exhausted: Ok(())
SenderReturn ==
    /\ snd_pc = "send"
    /\ range_exhausted(snd_seq, test_total)
    /\ snd_pc' = "done"
    /\ UNCHANGED << stats, reconn, summary, delivered, views, rxvars, snd_err, snd_seq,
                    snd_test_id, test_total, rate_per_sec, broadcasts, sorted, qcall >>

SenderNext ==
    \/ \E ok \in BOOLEAN : Broadcast(ok)
    \/ \E wrote \in BOOLEAN : WriteSendLog(wrote)
    \/ SenderReturn

SenderSpec == SenderInit /\ [][SenderNext]_vars


\* =================================================================== claims

\* ---- what the inputs so far amount to, read off the call histories
DeliveredSeqs == { delivered[i].seq : i \in 1..Len(delivered) }
DistinctDelivered == Cardinality(DeliveredSeqs)
RedeliveredCount == Len(delivered) - DistinctDelivered
RECURSIVE MaxTotalOf(_)
MaxTotalOf(d) == IF d = <<>> THEN 0 ELSE Max(Head(d).total, MaxTotalOf(Tail(d)))
LargestTotal == MaxTotalOf(delivered)

\* C1: after N distinct sequence numbers and k re-deliveries in any
\* interleaving, the Summary has duplicates = k, received_unique = N,
\* recv_total = N + k and delivery_rate = N / max(total, N), total being the
\* largest total recorded (the rate is 0.0 when nothing was expected or received).
C1_DuplicatesAndDeliveryRate ==
    IsSome(summary) =>
        LET s == Unwrap(summary)
            N == DistinctDelivered
            k == RedeliveredCount
            d == Max(LargestTotal, N)
        IN  /\ s.duplicates = k
            /\ s.received_unique = N
            /\ s.recv_total = N + k
            /\ s.delivery_rate = IF d = 0 THEN <<0, 1>> ELSE <<N, d>>

\* C1 witness: a summarized stream with two distinct numbers, one
\* re-delivery, and fewer distinct numbers than the announced total
C1_Witness ==
    /\ IsSome(summary)
    /\ DistinctDelivered = 2
    /\ RedeliveredCount = 1
    /\ LargestTotal = 2
    /\ Unwrap(summary).delivery_rate = <<2, 2>>

\* C7: recording a sequence number already recorded leaves received_unique
\* unchanged and adds exactly 1 to duplicates and to recv_total; recording a
\* new sequence number adds 1 to received_unique and leaves duplicates unchanged.
C7_RecordDuplicateEffect ==
    [][ Len(delivered') = Len(delivered) + 1 =>
          LET m == delivered'[Len(delivered')]
          IN  IF m.seq \in DeliveredSeqs
              THEN /\ Cardinality(stats'.seen) = Cardinality(stats.seen)
                   /\ stats'.duplicates = stats.duplicates + 1
                   /\ stats'.recv_total = stats.recv_total + 1
              ELSE /\ Cardinality(stats'.seen) = Cardinality(stats.seen) + 1
                   /\ stats'.duplicates = stats.duplicates
                   /\ stats'.recv_total = stats.recv_total + 1 ]_vars

\* C7 witness: a re-delivery has been recorded after a new number
C7_Witness ==
    /\ Len(delivered) = 3
    /\ delivered[1].seq # delivered[2].seq
    /\ delivered[3].seq = delivered[1].seq
    /\ stats.duplicates = 1
    /\ Cardinality(stats.seen) = 2

\* ---- the downtime bookkeeping the views so far call for: a call taking the
\* connected count from above zero to zero opens an interval at its timestamp
\* and counts a period; the next call taking it above zero closes the interval
\* with duration ts_close - ts_open
RECURSIVE DowntimeReplay(_, _, _, _)
DowntimeReplay(v, prev, open, acc) ==
    IF v = <<>> THEN [ open |-> open, periods |-> acc.periods, durations |-> acc.durations ]
    ELSE LET h == Head(v)
             toZero == prev > 0 /\ h.connected = 0
             fromZero == prev = 0 /\ h.connected > 0
         IN  DowntimeReplay(
                 Tail(v), h.connected,
                 IF toZero THEN Some(h.ts) ELSE IF fromZero THEN None ELSE open,
                 [ periods |-> IF toZero THEN acc.periods + 1 ELSE acc.periods,
                   durations |-> IF fromZero /\ IsSome(open)
                                 THEN Append(acc.durations, h.ts - Unwrap(open))
                                 ELSE acc.durations ])
ExpectedDowntime == DowntimeReplay(views, 0, None, [ periods |-> 0, durations |-> <<>> ])

ExampleViews ==
    << [ ts |-> 0, connected |-> 1, reachable |-> 1 ],
       [ ts |-> 1000, connected |-> 0, reachable |-> 0 ],
       [ ts |-> 3000, connected |-> 1, reachable |-> 1 ] >>

\* C8: with non-decreasing timestamps, every record_peer_view call that takes
\* the connected count from above zero to zero adds one downtime period and
\* opens an interval at its timestamp, and the next call taking the count
\* above zero closes it with duration ts_close - ts_open; the calls
\* (0,1,1), (1000,0,0), (3000,1,1) give one period and one duration of 2000.
C8_DowntimeIntervals ==
    summary = None =>
        /\ stats.downtime_periods = ExpectedDowntime.periods
        /\ stats.downtime_started_at = ExpectedDowntime.open
        /\ stats.downtime_duration_ms = ExpectedDowntime.durations
        /\ views = ExampleViews =>
              stats.downtime_periods = 1 /\ stats.downtime_duration_ms = <<2000>>

\* C8 witness: the example sequence has been recorded
C8_Witness ==
    /\ views = ExampleViews
    /\ stats.downtime_duration_ms = <<2000>>

\* ---- convergence, read off the call history: some prefix of the deliveries
\* holds as many distinct sequence numbers as the largest total it announces
PrefixConverged(n) ==
    LET pre == SubSeq(delivered, 1, n)
    IN  /\ MaxTotalOf(pre) > 0
        /\ Cardinality({ pre[i].seq : i \in 1..n }) = MaxTotalOf(pre)
Converged == \E n \in 1..Len(delivered) : PrefixConverged(n)

\* C10: a run that reached total_expected distinct sequence numbers reports
\* its convergence time in the Summary as convergence_time_ms.
C10_ConvergenceReported ==
    (IsSome(summary) /\ Converged) =>
        /\ "convergence_time_ms" \in DOMAIN Unwrap(summary)
        /\ IsSome(Unwrap(summary).convergence_time_ms)


\* ---- the receiver loop
IsForeignMsg(e) ==
    /\ e.kind = "Msg"
    /\ e.bytes.ok
    /\ IsSome(current_test)
    /\ Some(e.bytes.msg.test_id) # current_test

\* C2: once current_test is set it never changes, and a later message with
\* another test_id is ignored: it is not recorded, last_valid_ms and the log
\* stay as they were, and the statistics are those an iteration without any
\* event would leave.
C2_FirstTestWins ==
    [][ /\ IsSome(current_test) => current_test' = current_test
        /\ (consumed' = consumed + 1 /\ IsForeignMsg(event')) =>
              /\ last_valid_ms' = last_valid_ms
              /\ log' = log
              /\ delivered' = delivered
              /\ reconn' = reconn
              /\ \/ stats' = stats /\ summary' = None
                 \/ /\ pc' = "done"
                    /\ stats' = summarize_stats(stats, now)
                    /\ summary' = Some(finish(stats, now, transport)) ]_vars

\* C2 witness: a message of another test was taken after test binding
C2_Witness ==
    /\ pc = "loop"
    /\ IsForeignMsg(event)
    /\ Len(delivered) = 1
    /\ consumed = 2

NoStatistic(s) ==
    /\ s.lat_min = None /\ s.lat_p50 = None /\ s.lat_p90 = None
    /\ s.lat_p99 = None /\ s.lat_max = None
    /\ s.ldh_min = None /\ s.ldh_p50 = None /\ s.ldh_p90 = None
    /\ s.ldh_p99 = None /\ s.ldh_max = None
    /\ s.out_of_order = 0 /\ s.duplicates = 0
    /\ s.received_unique = 0 /\ s.recv_total = 0

\* C3: a run that records no valid message leaves the loop by timeout only
\* when the time since start exceeds the idle threshold, does so at the first
\* termination check after that, and returns a Summary with
\* timed_out_no_data, without saw_test, and with no latency or hop-count
\* statistic (the order and duplicate counters are 0).
C3_NoDataTimeout ==
    delivered = <<>> =>
        /\ pc = "loop" => SatSub(sleep_from, start_ms) <= IdleMs
        /\ exit_by = "idle_timeout" => SatSub(now, start_ms) > IdleMs
        /\ pc = "done" =>
              /\ Unwrap(summary).timed_out_no_data
              /\ ~Unwrap(summary).saw_test
              /\ NoStatistic(Unwrap(summary))

\* C3 witness: a run with events but no valid message ended by idle timeout
C3_Witness ==
    /\ delivered = <<>>
    /\ consumed > 0
    /\ pc = "done"
    /\ exit_by = "idle_timeout"
    /\ Unwrap(summary).timed_out_no_data

\* C4: once a valid message has been recorded, whatever its seq and total,
\* the loop leaves by timeout only when now - last_valid_ms exceeds the idle
\* threshold, and no termination check lets such an excess pass.
C4_IdleGovernedByLastValid ==
    delivered # <<>> =>
        /\ exit_by = "idle_timeout" => SatSub(now, last_valid_ms) > IdleMs
        /\ pc = "loop" => SatSub(sleep_from, last_valid_ms) <= IdleMs

\* C5: in the Summary returned by run_receiver timed_out_no_data holds
\* exactly when no valid message was recorded, and saw_test is its negation,
\* on both exit paths and for every total the messages carried.
C5_TimedOutNoDataFlag ==
    pc = "done" =>
        /\ Unwrap(summary).timed_out_no_data = (delivered = <<>>)
        /\ Unwrap(summary).saw_test = ~Unwrap(summary).timed_out_no_data

\* C5 witness: a returned run whose only recorded messages announced total 0
C5_Witness ==
    /\ pc = "done"
    /\ delivered # <<>>
    /\ LargestTotal = 0
    /\ Unwrap(summary).saw_test

\* C6: the termination check runs at the end of every iteration, whichever
\* branch the select! took, and the sleep is served first once it has fired;
\* so while the loop runs, the latest check found at most the idle threshold
\* elapsed since the last valid message, and the clock is never more than one
\* tick interval past that threshold, whatever events arrive.
C6_IdleCheckNotStarved ==
    pc = "loop" =>
        /\ SatSub(sleep_from, last_valid_ms) <= IdleMs
        /\ now <= sleep_from + TickMs
        /\ SatSub(now, last_valid_ms) <= IdleMs + TickMs

\* C6 witness: the loop was left by timeout in the check that follows an
\* event which is no valid message of the active test
C6_Witness ==
    /\ pc = "done"
    /\ exit_by = "idle_timeout"
    /\ event.kind \in {"Err", "Lagged", "Disconnect", "Reconnect"} \/ IsForeignMsg(event)
    /\ consumed = MaxEvents

\* ---- the reconnect-time samples the log calls for: each recv event that
\* follows a neighbor_down event, with no other recv event between, stands for
\* one sample: its time minus the time of the latest neighbor_down before it
RECURSIVE ReconnectReplay(_, _, _)
ReconnectReplay(l, pending, samples) ==
    IF l = <<>> THEN [ pending |-> pending, samples |-> samples ]
    ELSE LET e == Head(l)
         IN  IF e.event = "neighbor_down"
             THEN ReconnectReplay(Tail(l), Some(e.ts_ms), samples)
             ELSE IF e.event = "recv" /\ IsSome(pending)
             THEN ReconnectReplay(Tail(l), None, Append(samples, e.ts_ms - Unwrap(pending)))
             ELSE ReconnectReplay(Tail(l), pending, samples)
ExpectedReconnect == ReconnectReplay(log, None, <<>>)

C11_QuantilNearestRank ==
    IsSome(qcall) =>
        LET c == Unwrap(qcall)
            n == Len(sorted)
        IN  /\ n = 0 => c.result = None
            /\ n >= 1 =>
                  \E k \in 0..(n - 1) :
                      /\ 200 * k - 100 <= 2 * (n - 1) * c.pct
                      /\ 2 * (n - 1) * c.pct < 200 * k + 100
                      /\ c.result = Some(sorted[k + 1])
            /\ (sorted = <<1, 2, 3, 4, 5>> /\ c.pct = 50) => c.result = Some(3)
            /\ (sorted = <<1, 2, 3, 4, 5>> /\ c.pct = 90) => c.result = Some(5)

\* C11 witness: the 0.90 quantile of [1,2,3,4,5] has been taken
C11_Witness ==
    /\ sorted = <<1, 2, 3, 4, 5>>
    /\ IsSome(qcall)
    /\ Unwrap(qcall).pct = 90
    /\ Unwrap(qcall).result = Some(5)

\* ---- absent statistics
\* the peer views the receiver fed to record_peer_view, read off the
\* neighbor_down / neighbor_up log events
RECURSIVE LogViewsOf(_)
LogViewsOf(l) ==
    IF l = <<>> THEN <<>>
    ELSE IF Head(l).event \in {"neighbor_down", "neighbor_up"}
    THEN << [ ts |-> Head(l).ts_ms, connected |-> Head(l).extra[1],
              reachable |-> Head(l).extra[2] ] >> \o LogViewsOf(Tail(l))
    ELSE LogViewsOf(Tail(l))
LogDowntime == DowntimeReplay(LogViewsOf(log), 0, None, [ periods |-> 0, durations |-> <<>> ])

NoMessageRecorded == delivered = <<>>
NoHopCountRecorded == \A i \in 1..Len(log) : log[i].event = "recv" => log[i].ldh = None
NoDowntimeInterval == LogDowntime.durations = <<>> /\ LogDowntime.open = None

\* C12: in the Summary, lat_min/p50/p90/p99/max are None exactly when no
\* message was recorded, the hop-count statistics exactly when no recorded
\* message carried a hop count, downtime_p50/p90/max exactly when no downtime
\* interval was recorded, pr_avg_ratio and avg_connected_peers exactly when
\* their time denominator is 0; a present average has a non-zero denominator.
C12_AbsentWithoutSamples ==
    pc = "done" =>
        LET s == Unwrap(summary)
        IN  /\ \A f \in {"lat_min", "lat_p50", "lat_p90", "lat_p99", "lat_max"} :
                  (s[f] = None) <=> NoMessageRecorded
            /\ \A f \in {"ldh_min", "ldh_p50", "ldh_p90", "ldh_p99", "ldh_max"} :
                  (s[f] = None) <=> NoHopCountRecorded
            /\ \A f \in {"downtime_p50_ms", "downtime_p90_ms", "downtime_max_ms"} :
                  (s[f] = None) <=> NoDowntimeInterval
            /\ (s.pr_avg_ratio = None) <=> (stats.pr_total_ms = 0)
            /\ (s.avg_connected_peers = None) <=> (stats.conn_total_ms = 0)
            /\ IsSome(s.pr_avg_ratio) => Unwrap(s.pr_avg_ratio)[2] > 0
            /\ IsSome(s.avg_connected_peers) => Unwrap(s.avg_connected_peers)[2] > 0

\* C12 witness: a returned run with latency samples, no hop count, a
\* connectivity average and no downtime interval
C12_Witness ==
    /\ pc = "done"
    /\ IsSome(Unwrap(summary).lat_min)
    /\ Unwrap(summary).ldh_p50 = None
    /\ IsSome(Unwrap(summary).avg_connected_peers)
    /\ Unwrap(summary).downtime_max_ms = None

\* ---- rates
\* a quotient <<a, b>> with a non-zero denominator and a value in [0, 1]
IsUnitRate(r) == r[2] > 0 /\ 0 <= r[1] /\ r[1] <= r[2]

\* C13: in the Summary duplicate_rate is duplicates / recv_total, and 0.0
\* when recv_total is 0; delivery_rate is 0.0 when nothing was received and
\* nothing expected; no rate has a zero denominator; both rates lie in [0, 1]:
\* received_unique never exceeds the reported total_expected and duplicates
\* never exceeds recv_total.
C13_RatesGuardedAndBounded ==
    IsSome(summary) =>
        LET s == Unwrap(summary)
        IN  /\ s.recv_total = Len(delivered)
            /\ s.duplicates = RedeliveredCount
            /\ s.duplicate_rate = IF Len(delivered) = 0 THEN <<0, 1>>
                                  ELSE <<RedeliveredCount, Len(delivered)>>
            /\ (DistinctDelivered = 0 /\ LargestTotal = 0) => s.delivery_rate = <<0, 1>>
            /\ s.delivery_rate # <<0, 1>> =>
                  s.delivery_rate = <<s.received_unique, s.total_expected>>
            /\ IsUnitRate(s.delivery_rate)
            /\ IsUnitRate(s.duplicate_rate)
            /\ s.received_unique <= s.total_expected
            /\ s.duplicates <= s.recv_total

\* C13 witness: a summarized stream of three messages announcing total 0,
\* two distinct sequence numbers and one re-delivery
C13_Witness ==
    /\ IsSome(summary)
    /\ Len(delivered) = 3
    /\ LargestTotal = 0
    /\ Unwrap(summary).duplicate_rate = <<1, 3>>
    /\ Unwrap(summary).delivery_rate = <<2, 2>>

\* ---- the sender
\* the i-th call of transport.broadcast carries the envelope with seq i - 1
\* of this run's test_id and total
BroadcastsInOrder ==
    \A i \in 1..Len(broadcasts) :
        /\ broadcasts[i].bytes.ok
        /\ broadcasts[i].bytes.msg.seq = i - 1
        /\ broadcasts[i].bytes.msg.test_id = snd_test_id
        /\ broadcasts[i].bytes.msg.total = test_total

\* the i-th log event is the send event of seq i - 1
SendLogInOrder ==
    \A i \in 1..Len(log) :
        /\ log[i].event = "send"
        /\ log[i].seq = Some(i - 1)
        /\ log[i].extra = << test_total >>

\* C14: a run_sender invocation with total N that meets no broadcast failure
\* broadcasts exactly N envelopes, seq 0, 1, ..., N-1 in increasing order,
\* each once, all with the same test_id and total = N, and writes the send
\* event of each envelope after its broadcast and before the next broadcast.
C14_SenderSequence ==
    snd_pc # "idle" =>
        /\ BroadcastsInOrder
        /\ SendLogInOrder
        /\ Len(log) <= Len(broadcasts)
        /\ Len(broadcasts) <= Len(log) + 1
        /\ Len(broadcasts) <= test_total
        /\ snd_pc = "send" => Len(log) = Len(broadcasts) /\ snd_seq = Len(broadcasts)
        /\ snd_pc = "log" => Len(broadcasts) = Len(log) + 1 /\ snd_seq = Len(log)
        /\ snd_pc = "done" =>
              /\ snd_err = "none"
              /\ Len(broadcasts) = test_total
              /\ Len(log) = test_total
              /\ \A i \in 1..Len(broadcasts) : broadcasts[i].ok
        /\ snd_err = "none" => snd_pc \in {"send", "log", "done"}

\* C14 witness: a run with total of at least 2 has returned Ok
C14_Witness ==
    /\ snd_pc = "done"
    /\ test_total >= 2
    /\ Len(broadcasts) = test_total
    /\ Len(log) = test_total

\* C15: when broadcast fails for sequence number i, run_sender returns the
\* error at once: the failing call is the last call of broadcast and the
\* only one for i, no send event for i is written, and no sequence number
\* above i is broadcast.
C15_BroadcastFailureAborts ==
    snd_err = "broadcast" =>
        LET i == snd_seq
        IN  /\ snd_pc = "failed"
            /\ Len(broadcasts) = i + 1
            /\ ~broadcasts[i + 1].ok
            /\ \A j \in 1..i : broadcasts[j].ok
            /\ Cardinality({ j \in 1..Len(broadcasts) : broadcasts[j].bytes.msg.seq = i }) = 1
            /\ \A j \in 1..Len(broadcasts) : broadcasts[j].bytes.msg.seq <= i
            /\ Len(log) = i
            /\ \A j \in 1..Len(log) : log[j].seq # Some(i)

\* C15 witness: the broadcast of sequence number 1 failed after that of 0
\* succeeded
C15_Witness ==
    /\ snd_err = "broadcast"
    /\ snd_seq = 1
    /\ Len(broadcasts) = 2
    /\ Len(log) = 1

\* ---- events that are no valid message
\* a step takes the transport event of the given kind
Takes(kind) == consumed' = consumed + 1 /\ event'.kind = kind

\* the rest of the iteration is the termination check alone, applied to the
\* statistics st: the loop goes on with st, or, the idle threshold being
\* exceeded, ends by timeout with the Summary of st
ChecksOnly(st) ==
    \/ /\ pc' = "loop"
       /\ exit_by' = "none"
       /\ ~idle_expired(st, last_valid_ms, start_ms, now)
       /\ stats' = st
       /\ summary' = None
    \/ /\ pc' = "done"
       /\ exit_by' = "idle_timeout"
       /\ idle_expired(st, last_valid_ms, start_ms, now)
       /\ SatSub(now, last_valid_ms) > IdleMs \/ SatSub(now, start_ms) > IdleMs
       /\ stats' = summarize_stats(st, now)
       /\ summary' = Some(finish(st, now, transport))

\* nothing the receiver keeps between iterations changes
LoopStateKept ==
    /\ current_test' = current_test
    /\ last_valid_ms' = last_valid_ms
    /\ connected_peers' = connected_peers
    /\ delivered' = delivered
    /\ reconn' = reconn
    /\ now' = now

\* C16: a Message event whose bytes do not decode is discarded: statistics,
\* current_test, last_valid_ms and connected_peers are unchanged, no log event
\* is written, and the loop goes on with its termination check.
C16_DecodeFailureDiscarded ==
    [][ (Takes("Msg") /\ ~event'.bytes.ok) =>
            /\ LoopStateKept
            /\ log' = log
            /\ ChecksOnly(stats) ]_vars

\* C16 witness: undecodable bytes were taken after a valid message and the
\* loop is still running
C16_Witness ==
    /\ pc = "loop"
    /\ event.kind = "Msg"
    /\ ~event.bytes.ok
    /\ Len(delivered) = 1
    /\ consumed = 2
    /\ current_test = Some(1)

\* C17: an Err item from next() never ends the loop by itself and leaves the
\* statistics, current_test, last_valid_ms and connected_peers unchanged; the
\* loop goes on to the termination check and the next event.
C17_TransportErrorIgnored ==
    [][ Takes("Err") =>
            /\ LoopStateKept
            /\ log' = log
            /\ exit_by' \in {"none", "idle_timeout"}
            /\ ChecksOnly(stats) ]_vars

\* C17 witness: an Err item was taken, the loop went on and took a further
\* event
C17_Witness ==
    /\ event.kind = "Err"
    /\ pc = "loop"
    /\ consumed = 2
    /\ Len(delivered) = 1

\* C18: a Lagged event adds exactly 1 to lagged_events and writes one lagged
\* log event; current_test, last_valid_ms, connected_peers and every other
\* statistic stay as they were, and the termination check gives what it
\* would have given without the event.
C18_LaggedFrame ==
    [][ Takes("Lagged") =>
            /\ LoopStateKept
            /\ IF pc' = "failed"
               THEN /\ log' = log
                    /\ stats' = [ stats EXCEPT !.lagged_events = stats.lagged_events + 1 ]
               ELSE /\ log' = Append(log, LogEvent(now, "lagged", None, None, None, <<>>))
                    /\ ChecksOnly([ stats EXCEPT !.lagged_events = stats.lagged_events + 1 ]) ]_vars

\* C18 witness: a Lagged event was taken after a valid message and the loop
\* is still running
C18_Witness ==
    /\ pc = "loop"
    /\ event.kind = "Lagged"
    /\ stats.lagged_events = 1
    /\ Len(delivered) = 1
    /\ Len(log) = 2 + (IF transport.joined THEN 0 ELSE 1)

CountEvents(name) == Cardinality({ i \in 1..Len(log) : log[i].event = name })

\* C19: when next() returns end of stream the loop exits in that iteration,
\* at the same instant and whatever the idle timers say, and run_receiver
\* returns the Summary of everything handled before.
C19_EndOfStreamExits ==
    [][ (pc = "loop" /\ event'.kind = "End") =>
            /\ pc' = "done"
            /\ exit_by' = "end_of_stream"
            /\ now' = now
            /\ delivered' = delivered
            /\ log' = log
            /\ IsSome(summary')
            /\ LET s == Unwrap(summary')
               IN  /\ s.recv_total = Len(delivered)
                   /\ s.received_unique = DistinctDelivered
                   /\ s.duplicates = RedeliveredCount
                   /\ s.lagged_events = CountEvents("lagged")
                   /\ s.downtime_periods = LogDowntime.periods
                   /\ s.saw_test = (delivered # <<>>)
                   /\ (s.lat_max = None) <=> (delivered = <<>>) ]_vars

\* C19 witness: the stream ended right after a valid message and a Lagged
\* event, before any idle threshold was exceeded
C19_Witness ==
    /\ pc = "done"
    /\ exit_by = "end_of_stream"
    /\ Len(delivered) = 1
    /\ Unwrap(summary).lagged_events = 1
    /\ SatSub(now, last_valid_ms) <= IdleMs
    /\ SatSub(now, start_ms) <= IdleMs

\* ---- join
JoinReported ==
    /\ pc = "start" => consumed = 0 /\ log = <<>>
    /\ pc \in {"loop", "done"} =>
          IF transport.joined
          THEN CountEvents("no_join") = 0
          ELSE /\ CountEvents("no_join") = 1
               /\ log[1].event = "no_join"
               /\ log[1].extra = << transport.join_wait_ms >>
    /\ pc = "done" =>
          /\ Unwrap(summary).joined = transport.joined
          /\ Unwrap(summary).join_wait_ms = transport.join_wait_ms

\* C20: when joined() is false the receiver writes exactly one no_join event
\* before it handles any transport event, the run still terminates, and the
\* Summary carries joined = false and the transport's join_wait_ms; when
\* joined() is true no no_join event is written and the Summary carries
\* joined = true.
C20_NoJoinLoggedAndTerminates ==
    /\ []JoinReported
    /\ [](~transport.joined => <>(pc \in {"done", "failed"}))

\* C20 witness: a run without join handled events and ended by idle timeout
C20_Witness ==
    /\ pc = "done"
    /\ exit_by = "idle_timeout"
    /\ ~transport.joined
    /\ consumed >= 1
    /\ log[1].event = "no_join"
    /\ ~Unwrap(summary).joined
    /\ Unwrap(summary).join_wait_ms = 2 * TimeStep

\* ---- order
\* the largest sequence number among the envelopes d, as an unsigned value
RECURSIVE MaxSeqOf(_)
MaxSeqOf(d) == IF d = <<>> THEN 0 ELSE Max(Head(d).seq, MaxSeqOf(Tail(d)))

\* C21: for every value of the unsigned counter, record counts a message as
\* out of order exactly when its seq is strictly below the largest seq
\* recorded before it, and otherwise sets max_seq_seen to its seq; the test
\* does not depend on deduplication: a re-delivered seq below the high-water
\* mark adds to duplicates and to out_of_order, one equal to it to duplicates
\* only.
C21_OutOfOrderIffBelowHighWater ==
    [][ Len(delivered') = Len(delivered) + 1 =>
          LET m == delivered'[Len(delivered')]
              below == delivered # <<>> /\ m.seq < MaxSeqOf(delivered)
          IN  /\ stats'.out_of_order = stats.out_of_order + (IF below THEN 1 ELSE 0)
              /\ ~below => stats'.max_seq_seen = m.seq
              /\ below => stats'.max_seq_seen = stats.max_seq_seen
              /\ stats'.duplicates =
                    stats.duplicates + (IF m.seq \in DeliveredSeqs THEN 1 ELSE 0) ]_vars

\* ---- the expected total
\* which timer the termination check uses: 0 awaiting the first message
\* (since-start timer), 1 active test (last-valid-message timer), 2 terminated
Phase(p, st) == IF p \in {"done", "failed"} THEN 2 ELSE IF st.total_expected > 0 THEN 1 ELSE 0

\* C22: total_expected is a high-water mark: after any sequence of record
\* calls it is the largest total recorded, and it never decreases; so the
\* receiver only moves forward through AwaitingFirstMessage, ActiveTest,
\* Terminated, never back from the last-valid-message timer to the
\* since-start timer.
C22_TotalExpectedMonotonic ==
    [][ /\ stats'.total_expected >= stats.total_expected
        /\ stats'.total_expected = MaxTotalOf(delivered')
        /\ Phase(pc', stats') >= Phase(pc, stats) ]_vars

\* C22 witness: a message announcing total 0 was recorded after one
\* announcing total 2, and the loop still uses the last-valid-message timer
C22_Witness ==
    /\ pc = "loop"
    /\ Len(delivered) = 2
    /\ delivered[1].total = 2
    /\ delivered[2].total = 0
    /\ stats.total_expected = 2

\* ---- latency
\* C23: every recorded message appends exactly one latency sample,
\* recv_ts - sent_ms when recv_ts >= sent_ms and 0 when sent_ms > recv_ts; no
\* sample is negative or larger than the receive time, and the lat_ms of the
\* recv log event is the sample.
C23_LatencyClamped ==
    [][ Len(delivered') = Len(delivered) + 1 =>
          LET m == delivered'[Len(delivered')]
              sample == IF now >= m.sent_ms THEN now - m.sent_ms ELSE 0
              samples == Append(stats.lats, sample)
          IN  /\ sample >= 0 /\ sample <= now
              /\ stats'.lats = IF pc' = "done" THEN sort_unstable(samples) ELSE samples
              /\ pc' # "failed" =>
                    /\ Len(log') = Len(log) + 1
                    /\ log'[Len(log')].event = "recv"
                    /\ log'[Len(log')].seq = Some(m.seq)
                    /\ log'[Len(log')].lat_ms = Some(sample) ]_vars

\* C23 witness: a message stamped later than its receive time was recorded
\* with latency 0, after one with a positive latency
C23_Witness ==
    /\ pc = "loop"
    /\ Len(delivered) = 2
    /\ delivered[1].sent_ms < now
    /\ delivered[2].sent_ms > now
    /\ stats.lats = << TimeStep, 0 >>

\* ---- time-weighted accumulators
\* the ratio the claim assigns to a view, in units of 1/RatioScale
ViewRatio(v) ==
    IF v.connected = 0 THEN RatioScale ELSE (v.reachable * RatioScale) \div v.connected

\* sum over i < Len(v) of Value(v[i]) * (t_{i+1} - t_i), by recursion on the
\* last view
RECURSIVE WeightedConnected(_)
WeightedConnected(v) ==
    IF Len(v) <= 1 THEN 0
    ELSE LET n == Len(v)
         IN  WeightedConnected(SubSeq(v, 1, n - 1))
                + v[n - 1].connected * (v[n].ts - v[n - 1].ts)
RECURSIVE WeightedRatio(_)
WeightedRatio(v) ==
    IF Len(v) <= 1 THEN 0
    ELSE LET n == Len(v)
         IN  WeightedRatio(SubSeq(v, 1, n - 1))
                + ViewRatio(v[n - 1]) * (v[n].ts - v[n - 1].ts)

\* C24: for record_peer_view calls at non-decreasing timestamps the first
\* call adds nothing to the accumulators; after the n-th call both time
\* denominators are tn - t0, the connected-peers numerator is the sum of
\* c_i * (t_{i+1} - t_i) and the reachability numerator is the same sum over
\* the ratios, with ratio 1 where connected is 0: each value is weighted by
\* the time it stayed in effect after it was reported.
C24_StepFunctionWeighting ==
    summary = None =>
        /\ Len(views) <= 1 =>
              /\ stats.pr_acc_ms = 0 /\ stats.pr_total_ms = 0
              /\ stats.conn_acc_ms = 0 /\ stats.conn_total_ms = 0
        /\ Len(views) >= 1 =>
              /\ stats.pr_total_ms = views[Len(views)].ts - views[1].ts
              /\ stats.conn_total_ms = views[Len(views)].ts - views[1].ts
        /\ stats.conn_acc_ms = WeightedConnected(views)
        /\ stats.pr_acc_ms = WeightedRatio(views)

\* C24 witness: three calls 1 s and 2 s apart reporting 2, 0 and 1 connected
\* peers, the first with one of two reachable
C24_Witness ==
    /\ summary = None
    /\ Len(views) = 3
    /\ views[1] = [ ts |-> 0, connected |-> 2, reachable |-> 1 ]
    /\ views[2].ts = 1000 /\ views[2].connected = 0
    /\ views[3].ts = 3000 /\ views[3].connected = 1
    /\ stats.conn_acc_ms = 2000
    /\ stats.pr_acc_ms = 1000 * (RatioScale \div 2) + 2000 * RatioScale

\* ---- PeerDown at the floor
\* C25: a PeerDown never takes connected_peers below zero; at zero it leaves
\* it at zero and neither opens a downtime interval nor increments
\* downtime_periods. An interval is opened, and downtime_periods incremented,
\* only by a PeerDown that takes connected_peers from 1 to 0, and while an
\* interval is open connected_peers is 0.
C25_PeerDownFloor ==
    [][ /\ connected_peers' >= 0
        /\ Takes("Disconnect") =>
              /\ connected_peers' = IF connected_peers = 0 THEN 0 ELSE connected_peers - 1
              /\ connected_peers = 0 =>
                    /\ stats'.downtime_periods = stats.downtime_periods
                    /\ pc' = "loop" =>
                          /\ stats'.downtime_started_at = stats.downtime_started_at
                          /\ stats'.downtime_duration_ms = stats.downtime_duration_ms
              /\ connected_peers = 1 =>
                    /\ stats'.downtime_periods = stats.downtime_periods + 1
                    /\ pc' = "loop" => stats'.downtime_started_at = Some(now)
        /\ (\/ stats'.downtime_periods # stats.downtime_periods
            \/ stats.downtime_started_at = None /\ stats'.downtime_started_at # None) =>
              /\ Takes("Disconnect")
              /\ connected_peers = 1
              /\ connected_peers' = 0
              /\ stats'.downtime_periods = stats.downtime_periods + 1
        /\ IsSome(stats'.downtime_started_at) => connected_peers' = 0 ]_vars

\* C25 witness: a PeerDown was taken at zero connected peers while the
\* interval opened by the previous PeerDown is still open
C25_Witness ==
    /\ pc = "loop"
    /\ event.kind = "Disconnect"
    /\ CountEvents("neighbor_up") = 1
    /\ CountEvents("neighbor_down") = 2
    /\ connected_peers = 0
    /\ stats.downtime_periods = 1
    /\ IsSome(stats.downtime_started_at)

\* ---- the interval open at exit
\* the downtime durations of a finished run, replayed from the neighbour
\* events of the log: the closed intervals, then the one still open at the
\* exit time
DurationsAtExit ==
    IF IsSome(LogDowntime.open)
    THEN Append(LogDowntime.durations, now - Unwrap(LogDowntime.open))
    ELSE LogDowntime.durations

\* C26: if the receiver exits while a downtime interval is still open,
\* summarize closes it at the exit time, and its duration (exit time minus
\* opening time) is part of downtime_total_ms and of the downtime
\* percentiles; in every Summary the number of downtime durations equals
\* downtime_periods and no interval remains open.
C26_OpenDowntimeClosedAtExit ==
    pc = "done" =>
        LET s == Unwrap(summary)
            sorted_durations == sort_unstable(DurationsAtExit)
        IN  /\ stats.downtime_started_at = None
            /\ stats.downtime_duration_ms = DurationsAtExit
            /\ Len(stats.downtime_duration_ms) = s.downtime_periods
            /\ s.downtime_total_ms = SumSeq(DurationsAtExit)
            /\ s.downtime_p50_ms = quantil(sorted_durations, 50)
            /\ s.downtime_p90_ms = quantil(sorted_durations, 90)
            /\ s.downtime_max_ms = Last(sorted_durations)
            /\ IsSome(LogDowntime.open) =>
                  /\ s.downtime_total_ms >= now - Unwrap(LogDowntime.open)
                  /\ IsSome(s.downtime_max_ms)
                  /\ Unwrap(s.downtime_max_ms) >= now - Unwrap(LogDowntime.open)

\* C26 witness: the run ended 2 * TimeStep after the last neighbour went
\* down, and the Summary reports that interval
C26_Witness ==
    /\ pc = "done"
    /\ IsSome(LogDowntime.open)
    /\ now - Unwrap(LogDowntime.open) = 2 * TimeStep
    /\ Unwrap(summary).downtime_periods = 1
    /\ Unwrap(summary).downtime_total_ms = 2 * TimeStep
    /\ Unwrap(summary).downtime_max_ms = Some(2 * TimeStep)

\* ---- leaving the loop
\* C28: the receiver leaves its main loop only through end of the event
\* stream or through expiry of the idle timeout; no other event or condition
\* ends a receiver run.
C28_OnlyTwoExits ==
    [][ (pc = "loop" /\ pc' # "loop") =>
            /\ pc' = "done"
            /\ exit_by' \in {"end_of_stream", "idle_timeout"}
            /\ exit_by' = "end_of_stream" => event'.kind = "End"
            /\ exit_by' = "idle_timeout" =>
                  idle_expired(stats', last_valid_ms', start_ms, now) ]_vars

\* ---- reachability in the receiver
\* C29: in the receiver loop the connected and reachable counts handed to
\* record_peer_view are the same counter, so after any sequence of PeerUp and
\* PeerDown events the reachability numerator equals the reachability
\* denominator, and pr_avg_ratio, whenever present in the Summary, is
\* exactly 1.0.
C29_ReachabilityAlwaysOne ==
    /\ \A i \in 1..Len(log) :
          log[i].event \in {"neighbor_down", "neighbor_up"} =>
              log[i].extra[1] = log[i].extra[2]
    /\ stats.pr_acc_ms = stats.pr_total_ms * RatioScale
    /\ (pc = "done" /\ IsSome(Unwrap(summary).pr_avg_ratio)) =>
          /\ Unwrap(Unwrap(summary).pr_avg_ratio)[2] > 0
          /\ Unwrap(Unwrap(summary).pr_avg_ratio)[1] = Unwrap(Unwrap(summary).pr_avg_ratio)[2]

\* C29 witness: a finished run that saw a PeerUp and, later, a PeerDown
\* reports a reachability average
C29_Witness ==
    /\ pc = "done"
    /\ CountEvents("neighbor_up") >= 1
    /\ CountEvents("neighbor_down") >= 1
    /\ \E i, j \in 1..Len(log) :
          /\ log[i].event = "neighbor_up" /\ log[i].extra[1] > 0
          /\ log[j].event = "neighbor_down"
          /\ log[i].ts_ms < log[j].ts_ms
    /\ IsSome(Unwrap(summary).pr_avg_ratio)
    /\ stats.pr_total_ms > 0

\* ---- the event channel
\* C27 as stated: every event put on the event channel before the loop exits
\* is handled exactly once and in channel order, one at a time, also when
\* the tick fires while the loop waits: each item taken is the next one in
\* the order of sending, and a returned run has left nothing on the channel.
C27_EveryQueuedEventHandled ==
    /\ [](pc = "done" => (queue = <<>> /\ consumed = Len(enqueued)))
    /\ [][ consumed' # consumed =>
              /\ consumed' = consumed + 1
              /\ event' = enqueued[consumed'] ]_vars

\* C27, amended: the events handled are at every moment a prefix of the
\* events sent: each item the loop takes is the oldest one on the channel,
\* taken once and one per iteration; an iteration that takes nothing (the
\* tick) removes nothing from the channel; the loop exits by end of stream
\* only with the channel empty. Events still on the channel when the loop
\* exits by idle timeout are never handled.
C27_QueueDiscipline ==
    [][ /\ consumed' # consumed =>
              /\ consumed' = consumed + 1
              /\ queue # <<>>
              /\ event' = Head(queue)
              /\ queue' = Tail(queue)
              /\ event' = enqueued[consumed']
              /\ enqueued' = enqueued
        /\ consumed' = consumed =>
              /\ Len(queue') >= Len(queue)
              /\ SubSeq(queue', 1, Len(queue)) = queue
        /\ queue' = SubSeq(enqueued', consumed' + 1, Len(enqueued'))
        /\ exit_by' = "end_of_stream" => queue' = <<>> ]_vars

\* C27 witness: the tick fired with an event on the channel, the loop goes
\* on, and an earlier event has already been handled
C27_Witness ==
    /\ pc = "loop"
    /\ event.kind = "tick"
    /\ consumed >= 1
    /\ queue # <<>>
    /\ Len(enqueued) = consumed + Len(queue)

=============================================================================
